---- MODULE Spec2Model ----
(***************************************************************************)
(* Name resolution pass of xykpy: the symbol arena, the scope tree, the    *)
(* per-block scope binder (ScopeLoopkupBuilder), the Resolver driver and   *)
(* the diagnostics model (Errors / ErrorsBuilder / Outcome).               *)
(***************************************************************************)
EXTENDS Integers, Sequences, FiniteSets, TLC

VARIABLES
    body,       \* statements of module.body consumed so far by add_block
    symbols,    \* Resolution.symbols : SymbolTable (Vec<Symbol>)
    scopes,     \* Resolution.scopes  : ScopeTable  (Vec<Scope>)
    nodes,      \* Resolution.nodes   : HashMap<NodeIndex, SymbolId>
    lookup,     \* ScopeLoopkupBuilder.lookup : HashMap<&Name, SymbolId>
    errors,     \* Resolver.errors : ErrorsBuilder (its Vec<Errors>)
    pc,         \* "run" while Resolver::run iterates, "done" once it returned
    outcome,    \* the Outcome<Resolution> returned by Resolver::run
    estack,     \* diagnostics scenario: the ErrorsBuilders under construction,
                \* innermost last, each with the arguments its add() was given
    ebuilt,     \* diagnostics scenario: the latest build() call and its result
    eadds,      \* diagnostics scenario: number of add() calls made so far
    istack,     \* ErrorsIter.stack of the iterator flattening the built Errors
    iout,       \* the TypeErrors the iterator has yielded so far
    ipc,        \* "idle", "iterating" after into_iter, "finished" once next() gave None
    rest,       \* statements of module.body that add_block has not visited yet
    made,       \* scope scenario: the make_scope calls so far (parent given, id returned)
    sin,        \* ScopeId scenario: the indices handed to from_index and the build
    sout        \* ScopeId scenario: what from_index / into_index gave for them

vars == <<body, symbols, scopes, nodes, lookup, errors, pc, outcome, estack, ebuilt, eadds,
          istack, iout, ipc, rest, made, sin, sout>>

resolverVars == <<body, symbols, scopes, nodes, lookup, errors, pc, outcome>>

errorsVars == <<estack, ebuilt, eadds>>

iterVars == <<istack, iout, ipc>>

\* what neither the resolver nor the builders touch
auxVars == <<istack, iout, ipc, rest, made, sin, sout>>

-----------------------------------------------------------------------------
(* Bounds *)

MaxStmts == 3

MaxExampleStmts == 4

MaxNonlocalNames == 1

MaxBuilders == 2

MaxAdds == 4

Names == {"A", "x"}

-----------------------------------------------------------------------------
(* Option<T> as a sequence of length at most one *)

None == <<>>

Some(v) == <<v>>

-----------------------------------------------------------------------------
(* error.rs *)

TypeErrorNew(range, message) == [range |-> range, message |-> message]

AllGood == [tag |-> "AllGood"]

Single(error) == [tag |-> "Single", error |-> error]

Many(vec) == [tag |-> "Many", vec |-> vec]

ErrorsBuilderNew == <<>>

\* ErrorsBuilder::add, after the argument's conversion into Errors
ErrorsBuilderAdd(builder, error) ==
    IF error.tag # "AllGood" THEN Append(builder, error) ELSE builder

ErrorsBuilderBuild_wraps_single(builder) ==
    CASE Len(builder) = 0 -> AllGood
      [] OTHER -> Many(builder)

ErrorsBuilderBuild(builder) ==
    CASE Len(builder) = 0 -> AllGood
      [] Len(builder) = 1 -> builder[1]
      [] OTHER -> Many(builder)

\* From<TypeError> for Errors
FromTypeError(value) == Single(value)

\* From<()> for Errors
FromUnit == AllGood

\* From<ErrorsBuilder> for Errors
FromErrorsBuilder(value) == ErrorsBuilderBuild(value)

\* From<(E1, E2)> for Errors, on the two components already converted
FromPair(v1, v2) ==
    ErrorsBuilderBuild(ErrorsBuilderAdd(ErrorsBuilderAdd(ErrorsBuilderNew, v1), v2))

OutcomeMixed(value, builder) ==
    [value |-> value, errors |-> FromErrorsBuilder(builder)]

\* IntoIterator for Errors : the iterator's stack, its top at the end
ErrorsIntoIter(self) == <<self>>

\* vec.into_iter().rev()
Rev(vec) == [i \in 1..Len(vec) |-> vec[Len(vec) + 1 - i]]

ErrorsIterExtend_in_order(stack, vec) == stack \o vec

\* self.stack.extend(vec.into_iter().rev())
ErrorsIterExtend(stack, vec) == stack \o Rev(vec)

\* ErrorsIter::next : the stack it leaves and the item it returns
RECURSIVE ErrorsIterNext(_)
ErrorsIterNext(stack) ==
    IF stack = <<>> THEN [stack |-> <<>>, item |-> None]
    ELSE LET top == stack[Len(stack)]
             popped == SubSeq(stack, 1, Len(stack) - 1)
         IN  CASE top.tag = "AllGood" -> ErrorsIterNext(popped)
               [] top.tag = "Single" -> [stack |-> popped, item |-> Some(top.error)]
               [] top.tag = "Many" -> ErrorsIterNext(ErrorsIterExtend(popped, top.vec))

-----------------------------------------------------------------------------
(* symbol.rs *)

SymbolKinds == {"Class", "Alias", "Variable", "Function", "Nonlocal"}

KindDisplay(kind) ==
    CASE kind = "Class" -> "class"
      [] kind = "Alias" -> "type alias"
      [] kind = "Variable" -> "variable"
      [] kind = "Function" -> "function"
      [] kind = "Nonlocal" -> "nonlocal"

\* AtomicNodeIndex::dummy() holds the largest node index (u32::MAX); it is
\* represented here by the largest integer TLC can hold.  Real node indices
\* are small, so the order between the sentinel and any real index is kept.
no_node_index == 2147483647

is_decl(self) == self.decl # no_node_index

NodeIndexMax(a, b) == IF a >= b THEN a ELSE b

\* ast::NodeIndex::min
NodeIndexMin(a, b) == IF a <= b THEN a ELSE b

Decl(node) == [tag |-> "Decl", node |-> node]

Defn(node) == [tag |-> "Defn", node |-> node]

DeclAndDefn(node) == [tag |-> "DeclAndDefn", node |-> node]

SymbolMake_decl_only_with_defn(kind, scope, name, decl_defn) ==
    LET decl == IF decl_defn.tag = "DeclAndDefn" THEN decl_defn.node.node_index
                ELSE no_node_index
        defn == IF decl_defn.tag = "Decl" THEN no_node_index
                ELSE decl_defn.node.node_index
    IN  [kind |-> kind,
         scope |-> scope,
         name |-> name.node_index,
         name_range |-> name.range,
         decl |-> decl,
         defn |-> defn]

SymbolMake(kind, scope, name, decl_defn) ==
    LET decl == IF decl_defn.tag = "Defn" THEN no_node_index
                ELSE decl_defn.node.node_index
        defn == IF decl_defn.tag = "Decl" THEN no_node_index
                ELSE decl_defn.node.node_index
    IN  [kind |-> kind,
         scope |-> scope,
         name |-> name.node_index,
         name_range |-> name.range,
         decl |-> decl,
         defn |-> defn]

\* Symbol::merge, the (Variable, Variable) arm
merge_variable_variable_later_decl(self, later) ==
    LET conflict == is_decl(later)
        decl == IF is_decl(self) \/ ~is_decl(later) THEN self ELSE later
        defn == NodeIndexMin(self.defn, later.defn)
        merged == [decl EXCEPT !.defn = defn]
    IN  [merged |-> Some(merged), conflict |-> conflict]

merge_variable_variable_either(self, later) ==
    LET conflict == is_decl(self) \/ is_decl(later)
        decl == IF is_decl(self) \/ ~is_decl(later) THEN self ELSE later
        defn == NodeIndexMin(self.defn, later.defn)
        merged == [decl EXCEPT !.defn = defn]
    IN  [merged |-> Some(merged), conflict |-> conflict]

merge_variable_variable(self, later) ==
    LET conflict == is_decl(self) /\ is_decl(later)
        decl == IF is_decl(self) \/ ~is_decl(later) THEN self ELSE later
        defn == NodeIndexMin(self.defn, later.defn)
        merged == [decl EXCEPT !.defn = defn]
    IN  [merged |-> Some(merged), conflict |-> conflict]

\* Symbol::merge, the (Variable, Nonlocal) arm
merge_variable_nonlocal_keep(self, later) ==
    [merged |-> None, conflict |-> is_decl(self)]

merge_variable_nonlocal(self, later) ==
    [merged |-> Some(later), conflict |-> is_decl(self)]

\* Symbol::merge, the (Nonlocal, Variable) arm
merge_nonlocal_variable_on_later_decl(self, later) ==
    [merged |-> None, conflict |-> is_decl(later)]

merge_nonlocal_variable(self, later) ==
    [merged |-> None, conflict |-> is_decl(self)]

\* Symbol::merge, the catch-all arm
merge_other_latest_wins(self, later) ==
    [merged |-> Some(later), conflict |-> TRUE]

merge_other_same_kind_ok(self, later) ==
    [merged |-> None, conflict |-> self.kind # later.kind]

merge_other(self, later) ==
    [merged |-> None, conflict |-> TRUE]

\* Symbol::merge : (Option<Symbol>, conflict)
SymbolMerge(self, later) ==
    CASE self.kind = "Variable" /\ later.kind = "Variable" ->
            merge_variable_variable(self, later)
      [] self.kind = "Variable" /\ later.kind = "Nonlocal" ->
            merge_variable_nonlocal(self, later)
      [] self.kind = "Nonlocal" /\ later.kind = "Variable" ->
            merge_nonlocal_variable(self, later)
      [] OTHER ->
            merge_other(self, later)

SymbolTableNew == <<>>

SymbolTableInsert_over_last(table, symbol) ==
    IF table = <<>> THEN [table |-> <<symbol>>, id |-> 0]
    ELSE [table |-> [table EXCEPT ![Len(table)] = symbol], id |-> Len(table) - 1]

\* SymbolTable::insert : the table after the push and the id it returns
SymbolTableInsert(table, symbol) ==
    [table |-> Append(table, symbol), id |-> Len(table)]

SymbolTableGet(table, id) == table[id + 1]

SymbolTableSet_first(table, id, symbol) == [table EXCEPT ![1] = symbol]

\* *table.get_mut(id) = symbol
SymbolTableSet(table, id, symbol) == [table EXCEPT ![id + 1] = symbol]

-----------------------------------------------------------------------------
(* scope.rs *)

\* the largest u16
U16Max == 65535

\* usize -> u16 by try_into : None when the value does not fit
TryIntoU16(index) == IF index <= U16Max THEN Some(index) ELSE None

\* u16 -> NonZeroU16 by try_into : None for 0
TryIntoNonZeroU16(short) == IF short = 0 THEN None ELSE Some(short)

ScopeIdTryFromIndex_truncating(index, overflow_checks) ==
    TryIntoNonZeroU16(((index % (U16Max + 1)) + 1) % (U16Max + 1))

\* ScopeId::from_index : Some(id), or None when one of its two expect()s or
\* the overflow check of `short + 1` (builds with overflow checks; the
\* others wrap to 0) panics
ScopeIdTryFromIndex(index, overflow_checks) ==
    LET short == TryIntoU16(index) IN
    IF short = None THEN None
    ELSE IF short[1] + 1 > U16Max /\ overflow_checks THEN None
    ELSE TryIntoNonZeroU16((short[1] + 1) % (U16Max + 1))

\* ScopeId::from_index where it returns
ScopeIdFromIndex(index) == ScopeIdTryFromIndex(index, TRUE)[1]

ScopeIdIntoIndex(id) == id - 1

ScopeTableNew(root_node) ==
    [root_id |-> ScopeIdFromIndex(0),
     scopes |-> << [node |-> root_node, parent |-> None,
                    children |-> <<>>, symbols |-> {}] >>]

ScopeTableRootId(table) == table.root_id

ScopeTableMakeScope_under_root(table, node, parent) ==
    [table |-> [table EXCEPT !.scopes =
                    Append(@, [node |-> node, parent |-> Some(table.root_id),
                               children |-> <<>>, symbols |-> {}])],
     id |-> ScopeIdFromIndex(Len(table.scopes))]

\* ScopeTable::make_scope : the table it leaves and the id it returns
ScopeTableMakeScope(table, node, parent) ==
    LET index == Len(table.scopes)
        scope == [node |-> node, parent |-> Some(parent),
                  children |-> <<>>, symbols |-> {}]
    IN  [table |-> [table EXCEPT !.scopes = Append(@, scope)],
         id |-> ScopeIdFromIndex(index)]

ScopeTableGet(table, id) == table.scopes[ScopeIdIntoIndex(id) + 1]

ScopeTableAddSymbol_forgets(table, scope, symbol) == table

ScopeTableAddSymbol(table, scope, symbol) ==
    [table EXCEPT !.scopes[ScopeIdIntoIndex(scope) + 1].symbols = @ \cup {symbol}]

-----------------------------------------------------------------------------
(* The syntax tree handed to the resolver.  Node indices are assigned in   *)
(* source order (the module is node 0, a statement precedes its children,  *)
(* an earlier statement precedes a later one) and every node has a source  *)
(* range of its own.                                                       *)

NodesPerStmt == MaxNonlocalNames + 3

ModuleNodeIndex == 0

StmtNodeIndex(pos) == 1 + (pos - 1) * NodesPerStmt

TextRange(start, end) == [start |-> start, end |-> end]

\* the j-th child expression / identifier of the statement at position pos
ExprName(pos, j, id) ==
    [is_name |-> TRUE, id |-> id,
     node_index |-> StmtNodeIndex(pos) + j,
     range |-> TextRange(10 * (StmtNodeIndex(pos) + j), 10 * (StmtNodeIndex(pos) + j) + 5)]

ExprOther(pos, j) ==
    [is_name |-> FALSE, id |-> "",
     node_index |-> StmtNodeIndex(pos) + j,
     range |-> TextRange(10 * (StmtNodeIndex(pos) + j), 10 * (StmtNodeIndex(pos) + j) + 5)]

Stmt(kind, pos, targets, has_value) ==
    [kind |-> kind,
     node_index |-> StmtNodeIndex(pos),
     range |-> TextRange(10 * StmtNodeIndex(pos), 10 * (StmtNodeIndex(pos) + NodesPerStmt) - 1),
     targets |-> targets,
     has_value |-> has_value]

\* nonlocal statements list between 1 and MaxNonlocalNames names
NameLists == UNION {[1..n -> Names] : n \in 1..MaxNonlocalNames}

NonlocalStmt(pos, ids) ==
    Stmt("Nonlocal", pos, [j \in 1..Len(ids) |-> ExprName(pos, j, ids[j])], FALSE)

-----------------------------------------------------------------------------
(* resolver/lookup.rs *)

\* {:?} of a TextRange
RangeDebug(range) == ToString(range.start) \o ".." \o ToString(range.end)

ConflictMessage_cites_incoming(symbol, previous) ==
    KindDisplay(symbol.kind) \o " definition conflicts with earlier "
        \o KindDisplay(previous.kind) \o " definition at "
        \o RangeDebug(symbol.name_range)

ConflictMessage(symbol, previous) ==
    KindDisplay(symbol.kind) \o " definition conflicts with earlier "
        \o KindDisplay(previous.kind) \o " definition at "
        \o RangeDebug(previous.name_range)

\* ScopeLoopkupBuilder::new
ScopeLoopkupBuilderNew(symbols_, scopes_, errors_, scope_id) ==
    [symbols |-> symbols_, scopes |-> scopes_, errors |-> errors_,
     scope_id |-> scope_id, lookup |-> [n \in {} |-> 0]]

LookupInsert_first_id(map, key, id) ==
    [n \in DOMAIN map \cup {key} |-> IF n = key THEN 0 ELSE map[n]]

\* entry.insert(id) on the vacant entry of key
LookupInsert(map, key, id) ==
    [n \in DOMAIN map \cup {key} |-> IF n = key THEN id ELSE map[n]]

add_symbol_store_unless_conflict(table, id, merged, conflict) ==
    IF merged # None /\ ~conflict THEN SymbolTableSet(table, id, merged[1]) ELSE table

\* if let Some(merged) = merged { *self.symbols.get_mut(id) = merged; }
add_symbol_store(table, id, merged, conflict) ==
    IF merged # None THEN SymbolTableSet(table, id, merged[1]) ELSE table

\* ScopeLoopkupBuilder::add_symbol
add_symbol(self, kind, name, decl_defn) ==
    LET symbol == SymbolMake(kind, self.scope_id, name, decl_defn) IN
    IF name.id \notin DOMAIN self.lookup
    THEN LET ins == SymbolTableInsert(self.symbols, symbol) IN
         [self EXCEPT !.symbols = ins.table,
                      !.scopes = ScopeTableAddSymbol(self.scopes, self.scope_id, ins.id),
                      !.lookup = LookupInsert(self.lookup, name.id, ins.id)]
    ELSE LET id == self.lookup[name.id]
             previous == SymbolTableGet(self.symbols, id)
             m == SymbolMerge(previous, symbol)
             errs == IF m.conflict
                     THEN ErrorsBuilderAdd(self.errors,
                              FromTypeError(TypeErrorNew(symbol.name_range,
                                                  ConflictMessage(symbol, previous))))
                     ELSE self.errors
             syms == add_symbol_store(self.symbols, id, m.merged, m.conflict)
         IN  [self EXCEPT !.symbols = syms, !.errors = errs]

add_error(self, range, message) ==
    [self EXCEPT !.errors = ErrorsBuilderAdd(self.errors, FromTypeError(TypeErrorNew(range, message)))]

\* the loop of the Nonlocal arm: add_symbol for names[i..]
RECURSIVE add_nonlocal_names(_, _, _)
add_nonlocal_names(self, stmt, i) ==
    IF i > Len(stmt.targets) THEN self
    ELSE add_nonlocal_names(add_symbol(self, "Nonlocal", stmt.targets[i], Decl(stmt)),
                            stmt, i + 1)

add_stmt_assign_any_target(self, stmt) ==
    IF Len(stmt.targets) = 1
    THEN add_symbol(self, "Variable", stmt.targets[1], Defn(stmt))
    ELSE add_error(self, stmt.range,
                   "only single target assignments are support")

\* ScopeLoopkupBuilder::add_stmt, the Assign arm
add_stmt_assign(self, stmt) ==
    IF Len(stmt.targets) = 1
    THEN IF stmt.targets[1].is_name
         THEN add_symbol(self, "Variable", stmt.targets[1], Defn(stmt))
         ELSE add_error(self, stmt.targets[1].range,
                        "only name targets are supported")
    ELSE add_error(self, stmt.range,
                   "only single target assignments are support")

\* ScopeLoopkupBuilder::add_stmt, the AnnAssign arm
add_stmt_ann_assign(self, stmt) ==
    IF stmt.targets[1].is_name
    THEN IF stmt.has_value
         THEN add_symbol(self, "Variable", stmt.targets[1], DeclAndDefn(stmt))
         ELSE add_symbol(self, "Variable", stmt.targets[1], Decl(stmt))
    ELSE add_error(self, stmt.targets[1].range,
                   "only name targets are supported")

\* ScopeLoopkupBuilder::add_stmt
add_stmt(self, stmt) ==
    CASE stmt.kind = "ClassDef" ->
            add_symbol(self, "Class", stmt.targets[1], Decl(stmt))
      [] stmt.kind = "TypeAlias" ->
            add_symbol(self, "Alias", stmt.targets[1], Decl(stmt))
      [] stmt.kind = "Assign" -> add_stmt_assign(self, stmt)
      [] stmt.kind = "AnnAssign" -> add_stmt_ann_assign(self, stmt)
      [] stmt.kind = "FunctionDef" ->
            add_symbol(self, "Function", stmt.targets[1], Decl(stmt))
      [] stmt.kind = "Nonlocal" ->
            add_nonlocal_names(self, stmt, 1)
      [] OTHER -> self

\* ScopeLoopkupBuilder::add_block over stmts[i..]
RECURSIVE add_block(_, _, _)
add_block(self, stmts, i) ==
    IF i > Len(stmts) THEN self
    ELSE add_block(add_stmt(self, stmts[i]), stmts, i + 1)

-----------------------------------------------------------------------------
(* resolver.rs *)

\* Resolver::new
ResolverNew ==
    [symbols |-> SymbolTableNew,
     scopes |-> ScopeTableNew(ModuleNodeIndex),
     nodes |-> [n \in {} |-> 0],
     errors |-> ErrorsBuilderNew]

\* the builder Resolver::run works with, in the current state
Builder ==
    [symbols |-> symbols, scopes |-> scopes, errors |-> errors,
     scope_id |-> ScopeTableRootId(scopes), lookup |-> lookup]

InitBase ==
    /\ body = <<>>
    /\ symbols = ResolverNew.symbols
    /\ scopes = ResolverNew.scopes
    /\ nodes = ResolverNew.nodes
    /\ errors = ResolverNew.errors
    /\ lookup = ScopeLoopkupBuilderNew(ResolverNew.symbols, ResolverNew.scopes,
                                       ResolverNew.errors,
                                       ScopeTableRootId(ResolverNew.scopes)).lookup
    /\ pc = "run"
    /\ outcome = None
    /\ estack = <<>>
    /\ ebuilt = None
    /\ eadds = 0
    /\ istack = <<>>
    /\ iout = <<>>
    /\ ipc = "idle"
    /\ made = <<>>
    /\ sout = None

Init ==
    /\ InitBase
    /\ rest = <<>>
    /\ sin = None

\* one iteration of add_block's loop, on the next statement of module.body
Step(stmt) ==
    LET after == add_stmt(Builder, stmt) IN
    /\ body' = Append(body, stmt)
    /\ symbols' = after.symbols
    /\ scopes' = after.scopes
    /\ errors' = after.errors
    /\ lookup' = after.lookup
    /\ UNCHANGED <<nodes, pc, outcome, estack, ebuilt, eadds>>
    /\ UNCHANGED auxVars

ClassDefStmt(max) ==
    /\ pc = "run" /\ Len(body) < max
    /\ \E id \in Names :
          Step(Stmt("ClassDef", Len(body) + 1, <<ExprName(Len(body) + 1, 1, id)>>, FALSE))

TypeAliasStmt(max) ==
    /\ pc = "run" /\ Len(body) < max
    /\ \E id \in Names :
          Step(Stmt("TypeAlias", Len(body) + 1, <<ExprName(Len(body) + 1, 1, id)>>, TRUE))

AssignNameStmt(max) ==
    /\ pc = "run" /\ Len(body) < max
    /\ \E id \in Names :
          Step(Stmt("Assign", Len(body) + 1, <<ExprName(Len(body) + 1, 1, id)>>, TRUE))

AssignOtherTargetStmt(max) ==
    /\ pc = "run" /\ Len(body) < max
    /\ Step(Stmt("Assign", Len(body) + 1, <<ExprOther(Len(body) + 1, 1)>>, TRUE))

AssignMultiTargetStmt(max) ==
    /\ pc = "run" /\ Len(body) < max
    /\ \E id \in Names :
          Step(Stmt("Assign", Len(body) + 1,
                    <<ExprName(Len(body) + 1, 1, id), ExprName(Len(body) + 1, 2, "x")>>, TRUE))

AnnAssignNameStmt(max) ==
    /\ pc = "run" /\ Len(body) < max
    /\ \E id \in Names, has_value \in BOOLEAN :
          Step(Stmt("AnnAssign", Len(body) + 1, <<ExprName(Len(body) + 1, 1, id)>>, has_value))

AnnAssignOtherTargetStmt(max) ==
    /\ pc = "run" /\ Len(body) < max
    /\ \E has_value \in BOOLEAN :
          Step(Stmt("AnnAssign", Len(body) + 1, <<ExprOther(Len(body) + 1, 1)>>, has_value))

FunctionDefStmt(max) ==
    /\ pc = "run" /\ Len(body) < max
    /\ \E id \in Names :
          Step(Stmt("FunctionDef", Len(body) + 1, <<ExprName(Len(body) + 1, 1, id)>>, FALSE))

NonlocalNamesStmt(max) ==
    /\ pc = "run" /\ Len(body) < max
    /\ \E ids \in NameLists : Step(NonlocalStmt(Len(body) + 1, ids))

OtherStmt(max) ==
    /\ pc = "run" /\ Len(body) < max
    /\ Step(Stmt("Other", Len(body) + 1, <<>>, FALSE))

\* Resolver::run returns once add_block has consumed module.body
RunReturn ==
    /\ pc = "run"
    /\ rest = <<>>
    /\ pc' = "done"
    /\ outcome' = Some(OutcomeMixed([symbols |-> symbols, scopes |-> scopes,
                                     nodes |-> nodes], errors))
    /\ UNCHANGED <<body, symbols, scopes, nodes, lookup, errors, estack, ebuilt, eadds>>
    /\ UNCHANGED auxVars

Next ==
    \/ ClassDefStmt(MaxStmts)
    \/ TypeAliasStmt(MaxStmts)
    \/ AssignNameStmt(MaxStmts)
    \/ AssignOtherTargetStmt(MaxStmts)
    \/ AssignMultiTargetStmt(MaxStmts)
    \/ AnnAssignNameStmt(MaxStmts)
    \/ AnnAssignOtherTargetStmt(MaxStmts)
    \/ FunctionDefStmt(MaxStmts)
    \/ NonlocalNamesStmt(MaxStmts)
    \/ OtherStmt(MaxStmts)
    \/ RunReturn

Spec == Init /\ [][Next]_vars

\* the block of the end-to-end example: class and function definitions,
\* annotated and plain assignments to names
NextExample ==
    \/ ClassDefStmt(MaxExampleStmts)
    \/ AnnAssignNameStmt(MaxExampleStmts)
    \/ AssignNameStmt(MaxExampleStmts)
    \/ FunctionDefStmt(MaxExampleStmts)
    \/ RunReturn

SpecExample == Init /\ [][NextExample]_vars

-----------------------------------------------------------------------------
(* Resolver::run on a module body given up front *)

MaxRunStmts == 2

\* the statements a module body can have at position pos
StmtsAt(pos) ==
    {Stmt(kind, pos, <<ExprName(pos, 1, id)>>, FALSE) :
        kind \in {"ClassDef", "FunctionDef"}, id \in Names}
    \cup {Stmt(kind, pos, <<ExprName(pos, 1, id)>>, TRUE) :
        kind \in {"TypeAlias", "Assign"}, id \in Names}
    \cup {Stmt("AnnAssign", pos, <<ExprName(pos, 1, id)>>, has_value) :
        id \in Names, has_value \in BOOLEAN}
    \cup {Stmt("Assign", pos, <<ExprOther(pos, 1)>>, TRUE)}
    \cup {Stmt("Assign", pos, <<ExprName(pos, 1, id), ExprName(pos, 2, "x")>>, TRUE) :
        id \in Names}
    \cup {Stmt("AnnAssign", pos, <<ExprOther(pos, 1)>>, has_value) : has_value \in BOOLEAN}
    \cup {NonlocalStmt(pos, ids) : ids \in NameLists}
    \cup {Stmt("Other", pos, <<>>, FALSE)}

RECURSIVE BlocksOfLen(_)
BlocksOfLen(n) ==
    IF n = 0 THEN {<<>>}
    ELSE {Append(block, stmt) : block \in BlocksOfLen(n - 1), stmt \in StmtsAt(n)}

Blocks == UNION {BlocksOfLen(n) : n \in 0..MaxRunStmts}

\* Resolver::new(module)
InitRun ==
    /\ InitBase
    /\ rest \in Blocks
    /\ sin = None

AddBlockRemaining_stops_at_error(stmts, before, after) ==
    IF after.errors # before.errors THEN <<>> ELSE Tail(stmts)

\* what the for loop of add_block still has to visit after one iteration
AddBlockRemaining(stmts, before, after) == Tail(stmts)

\* one iteration of add_block's loop over module.body
AddBlockStep ==
    /\ pc = "run" /\ rest # <<>>
    /\ LET after == add_stmt(Builder, Head(rest)) IN
          /\ body' = Append(body, Head(rest))
          /\ symbols' = after.symbols
          /\ scopes' = after.scopes
          /\ errors' = after.errors
          /\ lookup' = after.lookup
          /\ rest' = AddBlockRemaining(rest, Builder, after)
    /\ UNCHANGED <<nodes, pc, outcome, made, sin, sout>>
    /\ UNCHANGED errorsVars
    /\ UNCHANGED iterVars

NextRun ==
    \/ AddBlockStep
    \/ RunReturn

\* run is sequential code: the loop goes on while statements remain, then
\* the function returns
SpecRun == InitRun /\ [][NextRun]_vars /\ WF_vars(AddBlockStep) /\ WF_vars(RunReturn)

-----------------------------------------------------------------------------
(* Scope scenario: a client of ScopeTable creating scopes under scopes the *)
(* table has issued.                                                       *)

MaxScopes == 5

\* the nodes that introduce the scopes: the first two statements
ScopeNodes == {StmtNodeIndex(1), StmtNodeIndex(2)}

\* the ids the table has handed out
IssuedIds == {ScopeTableRootId(scopes)} \cup {made[k].id : k \in 1..Len(made)}

\* table.make_scope(node, parent)
MakeScopeCall ==
    /\ Len(scopes.scopes) < MaxScopes
    /\ \E node \in ScopeNodes, parent \in IssuedIds :
          LET r == ScopeTableMakeScope(scopes, node, parent) IN
          /\ scopes' = r.table
          /\ made' = Append(made, [node |-> node, parent |-> parent, id |-> r.id])
    /\ UNCHANGED <<body, symbols, nodes, lookup, errors, pc, outcome>>
    /\ UNCHANGED errorsVars
    /\ UNCHANGED iterVars
    /\ UNCHANGED <<rest, sin, sout>>

NextScopes == MakeScopeCall

SpecScopes == Init /\ [][NextScopes]_vars

-----------------------------------------------------------------------------
(* ScopeId scenario: from_index on two indices, into_index on the ids *)

MaxIndexSamples == 4

\* indices near 0 and on both sides of the capacity
IndexSamples ==
    (0..(MaxIndexSamples - 1))
        \cup ((U16Max - MaxIndexSamples)..(U16Max + MaxIndexSamples - 1))

InitScopeId ==
    /\ InitBase
    /\ rest = <<>>
    /\ sin \in {Some([i |-> i, j |-> j, overflow_checks |-> oc]) :
                    i \in IndexSamples, j \in IndexSamples, oc \in BOOLEAN}

\* ScopeId::from_index(i), ScopeId::from_index(j)
FromIndexCall ==
    /\ sin # None /\ sout = None
    /\ sout' = Some([a |-> ScopeIdTryFromIndex(sin[1].i, sin[1].overflow_checks),
                     b |-> ScopeIdTryFromIndex(sin[1].j, sin[1].overflow_checks),
                     back |-> None])
    /\ UNCHANGED resolverVars
    /\ UNCHANGED errorsVars
    /\ UNCHANGED iterVars
    /\ UNCHANGED <<rest, made, sin>>

\* id.into_index() on each id from_index returned
IntoIndexCall ==
    /\ sout # None /\ sout[1].back = None
    /\ sout' = Some([sout[1] EXCEPT !.back =
                        Some([a |-> IF sout[1].a = None THEN None
                                    ELSE Some(ScopeIdIntoIndex(sout[1].a[1])),
                              b |-> IF sout[1].b = None THEN None
                                    ELSE Some(ScopeIdIntoIndex(sout[1].b[1]))])])
    /\ UNCHANGED resolverVars
    /\ UNCHANGED errorsVars
    /\ UNCHANGED iterVars
    /\ UNCHANGED <<rest, made, sin>>

NextScopeId ==
    \/ FromIndexCall
    \/ IntoIndexCall

SpecScopeId == InitScopeId /\ [][NextScopeId]_vars

-----------------------------------------------------------------------------
(* Diagnostics scenario: ErrorsBuilders used on their own, nested in one   *)
(* another the way sub-computations hand their diagnostics to a caller.    *)

\* the k-th diagnostic created in the scenario
FreshTypeError(k) == TypeErrorNew(TextRange(k, k + 1), "E" \o ToString(k))

\* builder.add(arg) on the innermost builder, arg already converted
AddToTop(stack, arg) ==
    [stack EXCEPT ![Len(stack)] =
        [errors |-> ErrorsBuilderAdd(@.errors, arg), added |-> Append(@.added, arg)]]

\* ErrorsBuilder::new
BuilderNew ==
    /\ Len(estack) < MaxBuilders
    /\ estack # <<>> \/ ebuilt = None
    /\ estack' = Append(estack, [errors |-> ErrorsBuilderNew, added |-> <<>>])
    /\ UNCHANGED <<ebuilt, eadds>>
    /\ UNCHANGED resolverVars
    /\ UNCHANGED auxVars

\* builder.add(TypeError)
BuilderAddTypeError ==
    /\ estack # <<>> /\ eadds < MaxAdds
    /\ estack' = AddToTop(estack, FromTypeError(FreshTypeError(eadds)))
    /\ eadds' = eadds + 1
    /\ UNCHANGED ebuilt
    /\ UNCHANGED resolverVars
    /\ UNCHANGED auxVars

\* builder.add(()) and builder.add(Errors::AllGood)
BuilderAddAllGood ==
    /\ estack # <<>> /\ eadds < MaxAdds
    /\ estack' = AddToTop(estack, FromUnit)
    /\ eadds' = eadds + 1
    /\ UNCHANGED ebuilt
    /\ UNCHANGED resolverVars
    /\ UNCHANGED auxVars

\* builder.add((e1, e2)), each component a TypeError or ()
BuilderAddPair ==
    /\ estack # <<>> /\ eadds < MaxAdds
    /\ \E first \in BOOLEAN, second \in BOOLEAN :
          LET v1 == IF first THEN FromTypeError(FreshTypeError(eadds)) ELSE FromUnit
              v2 == IF second THEN FromTypeError(FreshTypeError(eadds + MaxAdds + 1))
                    ELSE FromUnit
          IN  estack' = AddToTop(estack, FromPair(v1, v2))
    /\ eadds' = eadds + 1
    /\ UNCHANGED ebuilt
    /\ UNCHANGED resolverVars
    /\ UNCHANGED auxVars

\* outer.add(inner) : the inner builder is converted by build()
BuilderAddBuilder ==
    /\ Len(estack) >= 2 /\ eadds < MaxAdds
    /\ LET inner == estack[Len(estack)]
           result == FromErrorsBuilder(inner.errors)
       IN  /\ estack' = AddToTop(SubSeq(estack, 1, Len(estack) - 1), result)
           /\ ebuilt' = Some([added |-> inner.added, result |-> result])
    /\ eadds' = eadds + 1
    /\ UNCHANGED resolverVars
    /\ UNCHANGED auxVars

\* outermost.build()
BuilderBuild ==
    /\ Len(estack) = 1
    /\ ebuilt' = Some([added |-> estack[1].added,
                       result |-> ErrorsBuilderBuild(estack[1].errors)])
    /\ estack' = <<>>
    /\ UNCHANGED eadds
    /\ UNCHANGED resolverVars
    /\ UNCHANGED auxVars

NextErrors ==
    \/ BuilderNew
    \/ BuilderAddTypeError
    \/ BuilderAddAllGood
    \/ BuilderAddPair
    \/ BuilderAddBuilder
    \/ BuilderBuild

SpecErrors == Init /\ [][NextErrors]_vars

\* built.into_iter() on what the outermost build() returned
IntoIter ==
    /\ estack = <<>> /\ ebuilt # None /\ ipc = "idle"
    /\ istack' = ErrorsIntoIter(ebuilt[1].result)
    /\ ipc' = "iterating"
    /\ UNCHANGED <<iout, rest, made, sin, sout>>
    /\ UNCHANGED resolverVars
    /\ UNCHANGED errorsVars

\* one call of next() by the consumer of the iterator
IterNext ==
    /\ ipc = "iterating"
    /\ LET r == ErrorsIterNext(istack)
       IN  /\ istack' = r.stack
           /\ iout' = IF r.item = None THEN iout ELSE Append(iout, r.item[1])
           /\ ipc' = IF r.item = None THEN "finished" ELSE "iterating"
    /\ UNCHANGED <<rest, made, sin, sout>>
    /\ UNCHANGED resolverVars
    /\ UNCHANGED errorsVars

NextIter ==
    \/ NextErrors
    \/ IntoIter
    \/ IterNext

\* a for loop over the iterator keeps calling next() until it returns None
SpecIter == Init /\ [][NextIter]_vars /\ WF_vars(IterNext)

-----------------------------------------------------------------------------
(* Vocabulary of the properties *)

\* the arena entry currently bound to the name id
Entry(id) == SymbolTableGet(symbols, lookup[id])

\* the positions of stmt.targets that add_stmt binds
BindTargets(stmt) ==
    CASE stmt.kind \in {"ClassDef", "TypeAlias", "FunctionDef", "Nonlocal"} ->
            1..Len(stmt.targets)
      [] stmt.kind = "Assign" ->
            IF Len(stmt.targets) = 1 /\ stmt.targets[1].is_name THEN {1} ELSE {}
      [] stmt.kind = "AnnAssign" ->
            IF stmt.targets[1].is_name THEN {1} ELSE {}
      [] OTHER -> {}

\* the statements of the block consumed so far that bind the name id
Binders(id) ==
    {i \in 1..Len(body) : \E j \in BindTargets(body[i]) : body[i].targets[j].id = id}

IsPlainAssignOf(stmt, id) ==
    /\ stmt.kind = "Assign" /\ Len(stmt.targets) = 1
    /\ stmt.targets[1].is_name /\ stmt.targets[1].id = id

IsAnnotationOf(stmt, id) ==
    /\ stmt.kind = "AnnAssign"
    /\ stmt.targets[1].is_name /\ stmt.targets[1].id = id

IsNonlocalOf(stmt, id) ==
    /\ stmt.kind = "Nonlocal"
    /\ \E j \in 1..Len(stmt.targets) : stmt.targets[j].id = id

\* the ranges of the diagnostics accumulated so far
ErrorRanges == {errors[k].error.range : k \in 1..Len(errors)}

\* a step of add_block: one more statement of the block has been processed
Stepped == Len(body') = Len(body) + 1

\* the diagnostics the step has added
NewErrors == SubSeq(errors', Len(errors) + 1, Len(errors'))

NewErrorsAt(range) ==
    {k \in 1..Len(NewErrors) : NewErrors[k].error.range = range}

-----------------------------------------------------------------------------
(* Properties *)

\* C1: binding `nonlocal x` and then the plain assignment `x = 1` in the
\* same scope emits no conflict diagnostic, and the arena entry of x remains
\* the Nonlocal symbol.
C1_NonlocalThenAssignNoConflict ==
    \A id \in Names :
        ( /\ Len(body) = 2
          /\ body[1].kind = "Nonlocal" /\ Len(body[1].targets) = 1
          /\ body[1].targets[1].id = id
          /\ IsPlainAssignOf(body[2], id) )
        => /\ errors = <<>>
           /\ Entry(id).kind = "Nonlocal"

\* C2 as stated: the kind of an arena entry never changes after creation,
\* and a merge rewrites nothing but decl, defn and the name range.
C2_KindNeverChanges ==
    [][\A i \in 1..Len(symbols) :
          /\ symbols'[i].kind = symbols[i].kind
          /\ symbols'[i].scope = symbols[i].scope
          /\ symbols'[i].name = symbols[i].name]_vars

\* C2 amended: the kind of an arena entry never changes after creation,
\* except that a Variable entry becomes Nonlocal when its name is rebound by
\* a nonlocal statement; the scope field never changes; the name node may be
\* rewritten by a merge along with decl, defn and the name range.
C2_KindChangesOnlyToNonlocal ==
    [][\A i \in 1..Len(symbols) :
          /\ Len(symbols') >= Len(symbols)
          /\ symbols'[i].scope = symbols[i].scope
          /\ \/ symbols'[i].kind = symbols[i].kind
             \/ /\ symbols[i].kind = "Variable"
                /\ symbols'[i].kind = "Nonlocal"
                /\ Stepped
                /\ \E id \in DOMAIN lookup :
                      /\ lookup[id] = i - 1
                      /\ IsNonlocalOf(body'[Len(body')], id)]_vars

\* C2 witness: an annotated variable was rebound by a nonlocal statement and
\* its entry now has kind Nonlocal.
C2_Witness ==
    /\ Len(body) = 2
    /\ IsAnnotationOf(body[1], "x")
    /\ IsNonlocalOf(body[2], "x")
    /\ Entry("x").kind = "Nonlocal"

\* C3: when a Variable entry is rebound by a nonlocal statement, a conflict
\* diagnostic is emitted iff the Variable entry already has a decl, and in
\* both cases the entry is replaced by the incoming Nonlocal symbol.
C3_VariableThenNonlocal ==
    [][(Stepped /\ body'[Len(body')].kind = "Nonlocal") =>
          LET stmt == body'[Len(body')] IN
          \A j \in 1..Len(stmt.targets) :
              LET t == stmt.targets[j] IN
              ( /\ t.id \in DOMAIN lookup
                /\ Entry(t.id).kind = "Variable"
                /\ \A i \in 1..(j - 1) : stmt.targets[i].id # t.id )
              => /\ lookup'[t.id] = lookup[t.id]
                 /\ symbols'[lookup[t.id] + 1] =
                       [kind |-> "Nonlocal",
                        scope |-> Entry(t.id).scope,
                        name |-> t.node_index,
                        name_range |-> t.range,
                        decl |-> stmt.node_index,
                        defn |-> no_node_index]
                 /\ Cardinality(NewErrorsAt(t.range)) =
                       IF Entry(t.id).decl # no_node_index THEN 1 ELSE 0]_vars

\* C3 witness: `x = 1` then `nonlocal x` left a Nonlocal entry and no
\* diagnostic.
C3_Witness ==
    /\ Len(body) = 2
    /\ IsPlainAssignOf(body[1], "x")
    /\ body[2].kind = "Nonlocal" /\ Len(body[2].targets) = 1
    /\ body[2].targets[1].id = "x"
    /\ Entry("x").kind = "Nonlocal"
    /\ errors = <<>>

\* C4: a decl-only annotated assignment of a name followed by a plain
\* assignment of it emits no diagnostic and leaves a single symbol whose decl
\* is the annotation statement's node and whose defn is the assignment
\* statement's node.
C4_AnnotateThenAssign ==
    \A id \in Names : \A i, j \in 1..Len(body) :
        ( /\ i < j
          /\ Binders(id) = {i, j}
          /\ IsAnnotationOf(body[i], id) /\ ~body[i].has_value
          /\ IsPlainAssignOf(body[j], id) )
        => /\ id \in DOMAIN lookup
           /\ Cardinality({k \in 1..Len(symbols) :
                              symbols[k].name \in {body[i].targets[1].node_index,
                                                   body[j].targets[1].node_index}}) = 1
           /\ Entry(id).kind = "Variable"
           /\ Entry(id).decl = body[i].node_index
           /\ Entry(id).defn = body[j].node_index
           /\ Entry(id).defn # no_node_index
           /\ body[i].targets[1].range \notin ErrorRanges
           /\ body[j].targets[1].range \notin ErrorRanges

\* C4 witness: `x: int` then `x = 1` have been bound.
C4_Witness ==
    /\ Len(body) = 2
    /\ IsAnnotationOf(body[1], "x") /\ ~body[1].has_value
    /\ IsPlainAssignOf(body[2], "x")
    /\ Len(symbols) = 1
    /\ errors = <<>>

\* C5: the second of two annotated assignments of a name (the name being
\* bound by nothing but assignments) emits exactly one conflict diagnostic,
\* located at its own name range, whose message names the incoming kind, the
\* previous kind and the first annotation's name range.
C5_ReannotationConflict ==
    [][(/\ Stepped
        /\ body'[Len(body')].kind = "AnnAssign"
        /\ body'[Len(body')].targets[1].is_name) =>
          LET t == body'[Len(body')].targets[1]
              prior == Binders(t.id)
              annotations == {i \in prior : IsAnnotationOf(body[i], t.id)}
          IN  ( /\ annotations # {}
                /\ \A i \in prior : \/ IsAnnotationOf(body[i], t.id)
                                    \/ IsPlainAssignOf(body[i], t.id) )
              => LET first == CHOOSE i \in annotations : \A k \in annotations : i <= k
                     r == body[first].targets[1].range
                 IN  NewErrors =
                        << [tag |-> "Single",
                            error |-> [range |-> t.range,
                                       message |->
                                          "variable definition conflicts with earlier variable definition at "
                                             \o ToString(r.start) \o ".." \o ToString(r.end)]] >>]_vars

\* C5 witness: `x: int` then `x: str` have been bound and one diagnostic has
\* been recorded.
C5_Witness ==
    /\ Len(body) = 2
    /\ IsAnnotationOf(body[1], "x") /\ ~body[1].has_value
    /\ IsAnnotationOf(body[2], "x") /\ ~body[2].has_value
    /\ Len(errors) = 1

TypeKinds == {"Class", "Alias", "Function"}

\* the kind add_stmt binds the names of a statement with
IncomingKind(stmt) ==
    CASE stmt.kind = "ClassDef" -> "Class"
      [] stmt.kind = "TypeAlias" -> "Alias"
      [] stmt.kind = "FunctionDef" -> "Function"
      [] stmt.kind = "Nonlocal" -> "Nonlocal"
      [] OTHER -> "Variable"

\* C6: whenever a name is rebound and either the existing entry or the
\* incoming binding has kind Class, Alias or Function, exactly one conflict
\* diagnostic is emitted for that rebind and the arena entry is unchanged.
C6_TypeKindsAlwaysConflict ==
    [][Stepped =>
          LET stmt == body'[Len(body')] IN
          \A j \in BindTargets(stmt) :
              LET t == stmt.targets[j] IN
              ( /\ t.id \in DOMAIN lookup
                /\ \/ IncomingKind(stmt) \in TypeKinds
                   \/ Entry(t.id).kind \in TypeKinds )
              => /\ lookup'[t.id] = lookup[t.id]
                 /\ symbols'[lookup[t.id] + 1] = Entry(t.id)
                 /\ Cardinality(NewErrorsAt(t.range)) = 1
                 /\ (stmt.kind # "Nonlocal" =>
                        /\ Len(NewErrors) = 1
                        /\ symbols' = symbols)]_vars

\* C6 witness: `class A` then `def A` have been bound; the entry is the
\* class and one diagnostic has been recorded.
C6_Witness ==
    /\ Len(body) = 2
    /\ body[1].kind = "ClassDef" /\ body[1].targets[1].id = "A"
    /\ body[2].kind = "FunctionDef" /\ body[2].targets[1].id = "A"
    /\ Entry("A").kind = "Class"
    /\ Len(errors) = 1

\* C7: a SymbolId is in a scope's member set iff the arena entry of that id
\* has its scope field equal to that scope's id.
C7_ScopeMembership ==
    \A index \in 0..(Len(scopes.scopes) - 1) :
        LET sid == ScopeIdFromIndex(index)
            members == ScopeTableGet(scopes, sid).symbols
        IN  /\ members \subseteq 0..(Len(symbols) - 1)
            /\ \A id \in 0..(Len(symbols) - 1) :
                  id \in members <=> SymbolTableGet(symbols, id).scope = sid

\* C7 witness: two symbols are members of the root scope, one of them an
\* entry that a merge has replaced.
C7_Witness ==
    /\ Len(symbols) = 2
    /\ ScopeTableGet(scopes, ScopeTableRootId(scopes)).symbols = {0, 1}
    /\ IsPlainAssignOf(body[1], "x")
    /\ Entry("x").kind = "Nonlocal"

Unsupported(stmt) ==
    \/ stmt.kind = "Assign" /\ Len(stmt.targets) # 1
    \/ stmt.kind = "Assign" /\ Len(stmt.targets) = 1 /\ ~stmt.targets[1].is_name
    \/ stmt.kind = "AnnAssign" /\ ~stmt.targets[1].is_name

Supported(stmt) == ~Unsupported(stmt)

\* where the diagnostic of an unsupported statement is located
UnsupportedRange(stmt) ==
    IF stmt.kind = "Assign" /\ Len(stmt.targets) # 1
    THEN stmt.range ELSE stmt.targets[1].range

NotOfUnsupported(e) ==
    \A i \in 1..Len(body) :
        Unsupported(body[i]) => e.error.range # UnsupportedRange(body[i])

\* the binder after the supported statements of the block alone
WithoutUnsupported ==
    add_block(ScopeLoopkupBuilderNew(ResolverNew.symbols, ResolverNew.scopes,
                                     ResolverNew.errors,
                                     ScopeTableRootId(ResolverNew.scopes)),
              SelectSeq(body, Supported), 1)

\* C8: a multi-target assignment, an assignment to a non-name target and an
\* annotated assignment to a non-name target each emit exactly one
\* diagnostic and leave the arena, the member set and the lookup unchanged;
\* the statements that follow are bound as if the unsupported statement had
\* not been there.
C8_UnsupportedRecovery ==
    /\ [][(Stepped /\ Unsupported(body'[Len(body')])) =>
             /\ Len(errors') = Len(errors) + 1
             /\ SubSeq(errors', 1, Len(errors)) = errors
             /\ errors'[Len(errors')].tag = "Single"
             /\ errors'[Len(errors')].error.range = UnsupportedRange(body'[Len(body')])
             /\ symbols' = symbols
             /\ scopes' = scopes
             /\ lookup' = lookup]_vars
    /\ [](/\ symbols = WithoutUnsupported.symbols
          /\ scopes = WithoutUnsupported.scopes
          /\ lookup = WithoutUnsupported.lookup
          /\ SelectSeq(errors, NotOfUnsupported) = WithoutUnsupported.errors)

\* C8 witness: a multi-target assignment and an annotated assignment to a
\* non-name target have been processed, and the valid assignment after them
\* has bound a symbol.
C8_Witness ==
    /\ Len(body) = 3
    /\ Unsupported(body[1]) /\ body[1].kind = "Assign" /\ Len(body[1].targets) = 2
    /\ Unsupported(body[2]) /\ body[2].kind = "AnnAssign"
    /\ IsPlainAssignOf(body[3], "x")
    /\ Len(errors) = 2
    /\ Len(symbols) = 1

\* C9: binding `class A`, `x: int`, `x = 5`, `def A` in this order yields
\* exactly one diagnostic, the Function-versus-earlier-Class conflict on A;
\* the entry of A is the class symbol as it was made; the entry of x has the
\* annotation as decl and the assignment as defn.
C9_EndToEndExample ==
    ( /\ Len(body) = 4
      /\ body[1].kind = "ClassDef" /\ body[1].targets[1].id = "A"
      /\ IsAnnotationOf(body[2], "x") /\ ~body[2].has_value
      /\ IsPlainAssignOf(body[3], "x")
      /\ body[4].kind = "FunctionDef" /\ body[4].targets[1].id = "A" )
    => LET r == body[1].targets[1].range
           diagnostic ==
              [tag |-> "Single",
               error |-> [range |-> body[4].targets[1].range,
                          message |->
                             "function definition conflicts with earlier class definition at "
                                \o ToString(r.start) \o ".." \o ToString(r.end)]]
       IN  /\ errors = <<diagnostic>>
           /\ Len(symbols) = 2
           /\ Entry("A") = [kind |-> "Class",
                            scope |-> ScopeTableRootId(scopes),
                            name |-> body[1].targets[1].node_index,
                            name_range |-> r,
                            decl |-> body[1].node_index,
                            defn |-> no_node_index]
           /\ Entry("x").kind = "Variable"
           /\ Entry("x").decl = body[2].node_index
           /\ Entry("x").defn = body[3].node_index
           /\ pc = "done" =>
                 /\ outcome[1].errors = diagnostic
                 /\ outcome[1].value.symbols = symbols

\* C9 witness: Resolver::run has returned on the example's block.
C9_Witness ==
    /\ pc = "done"
    /\ Len(body) = 4
    /\ body[1].kind = "ClassDef" /\ body[1].targets[1].id = "A"
    /\ IsAnnotationOf(body[2], "x") /\ ~body[2].has_value
    /\ IsPlainAssignOf(body[3], "x")
    /\ body[4].kind = "FunctionDef" /\ body[4].targets[1].id = "A"
    /\ outcome[1].errors.tag = "Single"

NonEmpty(e) == e.tag # "AllGood"

\* no Many has fewer than two children or an AllGood child, at any depth
RECURSIVE WellFormed(_)
WellFormed(e) ==
    e.tag = "Many" =>
        /\ Len(e.vec) >= 2
        /\ \A i \in 1..Len(e.vec) : NonEmpty(e.vec[i]) /\ WellFormed(e.vec[i])

\* C10: build() returns AllGood when no non-empty diagnostic was added, the
\* single added element itself when exactly one was, and Many of the added
\* elements otherwise; every Many produced through the builder has at least
\* two children and no AllGood child, at every nesting level.
C10_BuildCollapses ==
    /\ ebuilt # None =>
          LET added == SelectSeq(ebuilt[1].added, NonEmpty)
              result == ebuilt[1].result
          IN  /\ Len(added) = 0 => result = [tag |-> "AllGood"]
              /\ Len(added) = 1 => result = added[1]
              /\ Len(added) >= 2 => result = [tag |-> "Many", vec |-> added]
              /\ WellFormed(result)
    /\ \A i \in 1..Len(estack) : \A k \in 1..Len(estack[i].errors) :
          NonEmpty(estack[i].errors[k]) /\ WellFormed(estack[i].errors[k])

\* C10 witness: the outermost build() returned a Many one of whose children
\* is itself a Many, after an AllGood had been added as well.
C10_Witness ==
    /\ estack = <<>>
    /\ ebuilt # None
    /\ ebuilt[1].result.tag = "Many"
    /\ \E i \in 1..Len(ebuilt[1].result.vec) : ebuilt[1].result.vec[i].tag = "Many"
    /\ \E i \in 1..Len(ebuilt[1].added) : ebuilt[1].added[i].tag = "AllGood"

-----------------------------------------------------------------------------
\* the TypeErrors of an Errors tree, depth first and left to right
RECURSIVE Flatten(_)
RECURSIVE FlattenAll(_)
Flatten(e) ==
    CASE e.tag = "AllGood" -> <<>>
      [] e.tag = "Single" -> <<e.error>>
      [] e.tag = "Many" -> FlattenAll(e.vec)

FlattenAll(vec) ==
    IF vec = <<>> THEN <<>> ELSE Flatten(Head(vec)) \o FlattenAll(Tail(vec))

NoDuplicates(seq) == \A i, j \in 1..Len(seq) : seq[i] = seq[j] => i = j

\* C11: iterating the built Errors ends (next() returns None after finitely
\* many calls), and what it yielded by then is every TypeError of the tree,
\* each once, depth first and left to right: the order in which the
\* diagnostics were added to the builder at each level.
C11_IterYieldsInOrder ==
    ipc = "finished" =>
        /\ iout = Flatten(ebuilt[1].result)
        /\ iout = FlattenAll(ebuilt[1].added)
        /\ NoDuplicates(iout)
        /\ istack = <<>>

C11_IterOrderAndTermination ==
    /\ []C11_IterYieldsInOrder
    /\ (ipc = "iterating") ~> (ipc = "finished")

\* a finished iteration over a nested tree: three diagnostics, one of them
\* added through an inner builder that itself holds two
C11_Witness ==
    /\ ipc = "finished"
    /\ Len(iout) >= 3
    /\ ebuilt[1].result.tag = "Many"
    /\ \E i \in 1..Len(ebuilt[1].result.vec) : ebuilt[1].result.vec[i].tag = "Many"

-----------------------------------------------------------------------------
IsPrefix(s, t) == Len(s) <= Len(t) /\ SubSeq(t, 1, Len(s)) = s

\* the builder Resolver::run starts from
FreshBuilder ==
    ScopeLoopkupBuilderNew(ResolverNew.symbols, ResolverNew.scopes, ResolverNew.errors,
                           ScopeTableRootId(ResolverNew.scopes))

\* each step of run visits exactly the next unvisited statement, and a step
\* never drops a diagnostic recorded before it
C12_VisitsNextStatement ==
    [][/\ body' \o rest' = body \o rest
       /\ Len(body') <= Len(body) + 1
       /\ IsPrefix(errors, errors')]_vars

\* when run has returned, every statement has been visited, and the outcome
\* is the Resolution and the diagnostics of add_block over the whole body
C12_ReturnsResolution ==
    pc = "done" =>
        /\ rest = <<>>
        /\ LET whole == add_block(FreshBuilder, body, 1) IN
              /\ outcome[1].value.symbols = whole.symbols
              /\ outcome[1].value.scopes = whole.scopes
              /\ outcome[1].errors = FromErrorsBuilder(whole.errors)

\* C12: for every module body, run visits every statement exactly once in
\* source order, whether or not a statement emitted a diagnostic, and then
\* returns the Resolution together with the accumulated diagnostics.
C12_RunVisitsAllAndReturns ==
    /\ C12_VisitsNextStatement
    /\ []C12_ReturnsResolution
    /\ <>(pc = "done")

\* run has returned on a body whose first statement emitted a diagnostic and
\* whose second statement was still processed and bound a symbol
C12_Witness ==
    /\ pc = "done"
    /\ Len(body) >= 2
    /\ Unsupported(body[1])
    /\ Len(outcome[1].value.symbols) >= 1
    /\ outcome[1].errors # AllGood

-----------------------------------------------------------------------------
\* C13: once run has returned, the node map of the Resolution takes the name
\* node of every symbol of the arena to that symbol's SymbolId.
C13_NodeMapPopulated ==
    pc = "done" =>
        \A id \in 0..(Len(outcome[1].value.symbols) - 1) :
            LET symbol == SymbolTableGet(outcome[1].value.symbols, id)
                node_map == outcome[1].value.nodes
            IN  /\ symbol.name \in DOMAIN node_map
                /\ node_map[symbol.name] = id

-----------------------------------------------------------------------------
\* C14: a plain assignment with more than one target emits one diagnostic,
\* located at the statement's range, whose message is exactly
\* "only single target assignments are supported".
C14_MultiTargetMessage ==
    [][Stepped =>
        LET stmt == body'[Len(body')] IN
        (stmt.kind = "Assign" /\ Len(stmt.targets) > 1) =>
            NewErrors = <<Single(TypeErrorNew(stmt.range,
                            "only single target assignments are supported"))>>]_vars

-----------------------------------------------------------------------------
\* a step that binds a name to a Variable while the name's entry is a Variable
VariableRebind(id) ==
    /\ Stepped
    /\ LET stmt == body'[Len(body')] IN
          IsPlainAssignOf(stmt, id) \/ IsAnnotationOf(stmt, id)
    /\ id \in DOMAIN lookup
    /\ Entry(id).kind = "Variable"

\* the symbol add_symbol makes for the Variable statement of the step
IncomingVariable ==
    LET stmt == body'[Len(body')] IN
    SymbolMake("Variable", ScopeTableRootId(scopes), stmt.targets[1],
               IF stmt.kind = "Assign" THEN Defn(stmt)
               ELSE IF stmt.has_value THEN DeclAndDefn(stmt) ELSE Decl(stmt))

\* C15: a Variable/Variable merge leaves in the entry the name node, name
\* range and decl of the previous symbol if that one has a decl and of the
\* incoming symbol otherwise (also when neither has a decl), and as defn the
\* minimum of the two defn node identities.
C15_MergeTakesDeclSide ==
    [][\A id \in Names : VariableRebind(id) =>
        LET previous == Entry(id)
            incoming == IncomingVariable
            from == IF is_decl(previous) THEN previous ELSE incoming
            merged == SymbolTableGet(symbols', lookup[id])
        IN  /\ merged.name = from.name
            /\ merged.name_range = from.name_range
            /\ merged.decl = from.decl
            /\ merged.defn = NodeIndexMin(previous.defn, incoming.defn)]_vars

-----------------------------------------------------------------------------
\* the names all of whose binders so far are plain or annotated assignments
VariableOnly(id) ==
    /\ Binders(id) # {}
    /\ \A i \in Binders(id) : body[i].kind \in {"Assign", "AnnAssign"}

Annotations(id) == {i \in Binders(id) : body[i].kind = "AnnAssign"}

\* the diagnostics located at the name of one of id's binders
ConflictsOf(id) ==
    {k \in 1..Len(errors) :
        \E i \in Binders(id) : errors[k].error.range = body[i].targets[1].range}

\* a rebind of a Variable by a Variable statement emits a conflict exactly
\* when both the entry and the incoming symbol carry a decl
C16_ConflictIffBothDecl ==
    [][\A id \in Names : VariableRebind(id) =>
        IF is_decl(Entry(id)) /\ is_decl(IncomingVariable)
        THEN /\ Len(NewErrors) = 1
             /\ NewErrors[1].error.range = IncomingVariable.name_range
        ELSE NewErrors = <<>>]_vars

\* with k annotations among the binders of such a name, k - 1 conflicts
\* have been emitted for it, and none when k is 0 or 1
C16_ConflictCount ==
    \A id \in Names : VariableOnly(id) =>
        Cardinality(ConflictsOf(id)) =
            IF Annotations(id) = {} THEN 0 ELSE Cardinality(Annotations(id)) - 1

\* C16: for a name bound only by plain and annotated assignments, a bind
\* emits a conflict iff both the existing entry and the incoming binding
\* carry a decl; so at most one annotation among any number of assignments
\* gives no conflict and k >= 1 annotations give exactly k - 1 conflicts.
C16_VariableConflicts ==
    /\ C16_ConflictIffBothDecl
    /\ []C16_ConflictCount

\* a plain assignment and two annotations of x, one conflict; the plain
\* assignment came first, so the first annotation merged without conflict
C16_Witness ==
    /\ Len(body) = 3
    /\ IsPlainAssignOf(body[1], "x")
    /\ IsAnnotationOf(body[2], "x")
    /\ IsAnnotationOf(body[3], "x")
    /\ Cardinality(ConflictsOf("x")) = 1
    /\ errors[1].error.range = body[3].targets[1].range

-----------------------------------------------------------------------------
\* the entry of id after the step
EntryAfter(id) == SymbolTableGet(symbols', lookup[id])

\* an annotated assignment of a name whose Variable entry already has a decl
\* conflicts, and the entry is nevertheless rewritten: it keeps the name and
\* decl of the previous symbol and takes the minimum defn, so an entry
\* without defn gains the statement as defn when the statement has a value
C17_ReannotationStillMerges ==
    [][\A id \in Names :
        (/\ VariableRebind(id)
         /\ IsAnnotationOf(body'[Len(body')], id)
         /\ is_decl(Entry(id)))
        => LET stmt == body'[Len(body')] IN
           /\ Len(NewErrors) = 1
           /\ NewErrors[1].error.range = stmt.targets[1].range
           /\ EntryAfter(id).name = Entry(id).name
           /\ EntryAfter(id).decl = Entry(id).decl
           /\ EntryAfter(id).defn =
                 NodeIndexMin(Entry(id).defn,
                              IF stmt.has_value THEN stmt.node_index ELSE no_node_index)
           /\ (Entry(id).defn = no_node_index /\ stmt.has_value)
                 => (EntryAfter(id).defn = stmt.node_index /\ EntryAfter(id) # Entry(id))]_vars

\* a nonlocal statement naming a Variable entry that has a decl conflicts,
\* and the entry nevertheless becomes the Nonlocal symbol of the statement
C17_NonlocalStillReplaces ==
    [][\A id \in Names :
        (/\ Stepped
         /\ IsNonlocalOf(body'[Len(body')], id)
         /\ id \in DOMAIN lookup
         /\ Entry(id).kind = "Variable"
         /\ is_decl(Entry(id)))
        => LET stmt == body'[Len(body')] IN
           /\ \E k \in 1..Len(NewErrors), j \in 1..Len(stmt.targets) :
                  /\ stmt.targets[j].id = id
                  /\ NewErrors[k].error.range = stmt.targets[j].range
           /\ EntryAfter(id).kind = "Nonlocal"
           /\ EntryAfter(id).decl = stmt.node_index
           /\ EntryAfter(id).name \in
                 {stmt.targets[j].node_index : j \in 1..Len(stmt.targets)}]_vars

\* C17: when a rebind conflicts and the merge returns a replacement, the
\* diagnostic is emitted and the entry at the existing SymbolId is still
\* overwritten with the replacement.
C17_ConflictStillOverwrites ==
    /\ C17_ReannotationStillMerges
    /\ C17_NonlocalStillReplaces

\* `x: int` then `x: int = v`: one conflict, and the entry has the second
\* statement as defn
C17_Witness ==
    /\ Len(body) = 2
    /\ IsAnnotationOf(body[1], "x") /\ ~body[1].has_value
    /\ IsAnnotationOf(body[2], "x") /\ body[2].has_value
    /\ Len(errors) = 1
    /\ Entry("x").decl = body[1].node_index
    /\ Entry("x").defn = body[2].node_index

-----------------------------------------------------------------------------
Present(node) == node # no_node_index

\* C18: every symbol of the arena has a decl or a defn that is a node of the
\* tree (not the reserved absent identity), when Symbol::make has created it
\* and after every merge into its entry.
C18_DeclOrDefnPresent ==
    \A k \in 1..Len(symbols) : Present(symbols[k].decl) \/ Present(symbols[k].defn)

\* three symbols, made with a decl only, a defn only and both, one of them
\* merged since: `class A`, `x = 1`, `x: int = 2`
C18_Witness ==
    /\ Len(body) = 3
    /\ body[1].kind = "ClassDef"
    /\ IsPlainAssignOf(body[2], "x")
    /\ IsAnnotationOf(body[3], "x") /\ body[3].has_value
    /\ Len(symbols) = 2
    /\ ~Present(symbols[1].defn)
    /\ Present(symbols[2].decl) /\ Present(symbols[2].defn)

-----------------------------------------------------------------------------
\* following parent links from the scope at index i reaches the root within
\* fuel steps
RECURSIVE ReachesRoot(_, _)
ReachesRoot(i, fuel) ==
    \/ i = ScopeIdIntoIndex(ScopeTableRootId(scopes))
    \/ /\ fuel > 0
       /\ scopes.scopes[i + 1].parent # None
       /\ ReachesRoot(ScopeIdIntoIndex(scopes.scopes[i + 1].parent[1]), fuel - 1)

\* the table after new and any number of make_scope calls: one root, at
\* index 0, the only scope without parent; every other scope has as parent
\* the id passed when it was made, which designates an earlier scope; the
\* ids returned are pairwise different and differ from the root's
C19_ParentLinks ==
    /\ Len(scopes.scopes) = Len(made) + 1
    /\ ScopeIdIntoIndex(ScopeTableRootId(scopes)) = 0
    /\ made = <<>> => Len(scopes.scopes) = 1
    /\ \A i \in 0..(Len(scopes.scopes) - 1) :
          /\ (scopes.scopes[i + 1].parent = None) <=> (i = 0)
          /\ ReachesRoot(i, Len(scopes.scopes))
    /\ \A k \in 1..Len(made) :
          /\ ScopeIdIntoIndex(made[k].id) = k
          /\ ScopeTableGet(scopes, made[k].id).parent = Some(made[k].parent)
          /\ ScopeTableGet(scopes, made[k].id).node = made[k].node
          /\ ScopeIdIntoIndex(made[k].parent) < ScopeIdIntoIndex(made[k].id)
          /\ made[k].id # ScopeTableRootId(scopes)
          /\ \A l \in 1..Len(made) : made[l].id = made[k].id => l = k

\* make_scope leaves every scope that existed, and the root id, as they were
C19_ExistingScopesUntouched ==
    [][/\ scopes'.root_id = scopes.root_id
       /\ Len(scopes'.scopes) >= Len(scopes.scopes)
       /\ \A i \in 1..Len(scopes.scopes) : scopes'.scopes[i] = scopes.scopes[i]]_vars

\* C19: new creates the root alone, at index 0 and without parent; after any
\* make_scope calls on issued parents each non-root scope's parent is the
\* id passed at its creation and is an earlier scope, so every scope
\* reaches the root; each call returns a fresh id and changes no scope.
C19_ScopeTreeShape ==
    /\ []C19_ParentLinks
    /\ C19_ExistingScopesUntouched

\* three scopes made: two under the root and one under the first of them
C19_Witness ==
    /\ Len(made) = 3
    /\ made[1].parent = ScopeTableRootId(scopes)
    /\ made[2].parent = ScopeTableRootId(scopes)
    /\ made[3].parent = made[1].id
    /\ ScopeTableGet(scopes, made[3].id).parent = Some(made[1].id)

-----------------------------------------------------------------------------
\* from_index then into_index is the identity on every index the 16-bit id
\* can hold, in either kind of build
RoundTripWithinCapacity ==
    \A i \in 0..(U16Max - 1) : \A oc \in BOOLEAN :
        LET id == ScopeIdTryFromIndex(i, oc) IN
        /\ id # None
        /\ id[1] \in 1..U16Max
        /\ ScopeIdIntoIndex(id[1]) = i

\* C20: into_index(from_index(i)) = i for every index i from 0 to 65534,
\* distinct indices give distinct ids, and from_index of an index of 65535
\* or more fails fatally instead of returning a wrapped id that would alias
\* an existing scope.
C20_ScopeIdRoundTrip ==
    /\ RoundTripWithinCapacity
    /\ sout # None =>
          LET i == sin[1].i
              j == sin[1].j
              a == sout[1].a
              b == sout[1].b
          IN  /\ (i <= U16Max - 1) <=> (a # None)
              /\ (j <= U16Max - 1) <=> (b # None)
              /\ (a # None /\ b # None /\ i # j) => a[1] # b[1]
              /\ sout[1].back # None =>
                    /\ a # None => sout[1].back[1].a = Some(i)
                    /\ b # None => sout[1].back[1].b = Some(j)

\* the last index that fits has been converted to the id 65535 and back,
\* next to the first index that does not fit, which failed
C20_Witness ==
    /\ sout # None
    /\ sin[1].i = U16Max - 1 /\ sin[1].j = U16Max
    /\ ~sin[1].overflow_checks
    /\ sout[1].a = Some(U16Max) /\ sout[1].b = None
    /\ sout[1].back # None
    /\ sout[1].back[1].a = Some(U16Max - 1)

-----------------------------------------------------------------------------
\* the names the step has bound for the first time
NewNames == DOMAIN lookup' \ DOMAIN lookup

\* the SymbolIds issued so far: those with an entry in the arena
IssuedSymbolIds == 0..(Len(symbols) - 1)

\* every id handed to the lookup or to the scope is of an entry of the arena
C21_IdsStayValid ==
    /\ \A id \in DOMAIN lookup : lookup[id] \in IssuedSymbolIds
    /\ ScopeTableGet(scopes, ScopeTableRootId(scopes)).symbols \subseteq IssuedSymbolIds

\* the ids insert returns in a step count on from the length of the arena,
\* one per newly bound name, none of them issued before; the arena never
\* shrinks; a step that inserts and merges nothing else leaves the entries
\* that existed as they were
C21_InsertAppends ==
    [][/\ Len(symbols') >= Len(symbols)
       /\ {lookup'[id] : id \in NewNames} = Len(symbols)..(Len(symbols') - 1)
       /\ Cardinality(NewNames) = Len(symbols') - Len(symbols)
       /\ \A id \in NewNames : lookup'[id] \notin IssuedSymbolIds
       /\ \A id \in DOMAIN lookup : id \in DOMAIN lookup' /\ lookup'[id] = lookup[id]
       /\ (Stepped /\ body'[Len(body')].kind # "Nonlocal" /\ NewNames # {})
            => /\ Len(symbols') = Len(symbols) + 1
               /\ SubSeq(symbols', 1, Len(symbols)) = symbols
               /\ \A id \in NewNames : lookup'[id] = Len(symbols)]_vars

\* C21: insert returns the number of symbols stored before the call, never
\* an id issued earlier, and leaves the existing entries unchanged; nothing
\* removes an entry, so issued ids stay valid and the arena never shrinks.
C21_ArenaAppendOnly ==
    /\ C21_InsertAppends
    /\ []C21_IdsStayValid

\* two names inserted one after the other, with ids 0 and 1
C21_Witness ==
    /\ Len(body) = 2
    /\ Len(symbols) = 2
    /\ DOMAIN lookup = {"A", "x"}
    /\ lookup["A"] = 0 /\ lookup["x"] = 1
    /\ symbols[1].name = body[1].targets[1].node_index
    /\ symbols[2].name = body[2].targets[1].node_index

-----------------------------------------------------------------------------
\* the names a bind has been performed for in the block so far
BoundNames == {id \in Names : Binders(id) # {}}

LookupIds == {lookup[id] : id \in DOMAIN lookup}

\* C22: while a block is bound the name lookup of the scope is injective,
\* the SymbolIds it maps to are exactly the members of the scope and exactly
\* the ids the arena has issued, and so there are as many symbols as there
\* are distinct names a bind was performed for.
C22_LookupBijection ==
    /\ \A id1, id2 \in DOMAIN lookup : lookup[id1] = lookup[id2] => id1 = id2
    /\ LookupIds = ScopeTableGet(scopes, ScopeTableRootId(scopes)).symbols
    /\ LookupIds = IssuedSymbolIds
    /\ DOMAIN lookup = BoundNames
    /\ Len(symbols) = Cardinality(BoundNames)

\* two names bound by three statements, one of the names twice
C22_Witness ==
    /\ Len(body) = 3
    /\ Cardinality(Binders("x")) = 2
    /\ Cardinality(Binders("A")) = 1
    /\ Len(symbols) = 2
    /\ lookup["x"] # lookup["A"]

-----------------------------------------------------------------------------
\* the names the statement of the step binds
StepNames ==
    LET stmt == body'[Len(body')] IN
    {stmt.targets[j].id : j \in BindTargets(stmt)}

RootSymbols(table) == ScopeTableGet(table, ScopeTableRootId(table)).symbols

\* the binds of a step leave the entry, the lookup binding and the scope
\* membership of every name they do not bind as they were
C23_OtherNamesUntouched ==
    [][Stepped =>
        \A id \in DOMAIN lookup \ StepNames :
            /\ id \in DOMAIN lookup'
            /\ lookup'[id] = lookup[id]
            /\ SymbolTableGet(symbols', lookup[id]) = Entry(id)
            /\ lookup[id] \in RootSymbols(scopes')]_vars

\* binds of names that are already present add nothing to the arena, to the
\* scope or to the lookup and leave each name at its SymbolId; every entry
\* added belongs to a name bound for the first time
C23_RebindAddsNothing ==
    [][Stepped =>
        /\ \A id \in StepNames \cap DOMAIN lookup : lookup'[id] = lookup[id]
        /\ DOMAIN lookup' = DOMAIN lookup \cup StepNames
        /\ Len(symbols') = Len(symbols) + Cardinality(StepNames \ DOMAIN lookup)
        /\ Cardinality(RootSymbols(scopes')) =
              Cardinality(RootSymbols(scopes)) + Cardinality(StepNames \ DOMAIN lookup)
        /\ StepNames \subseteq DOMAIN lookup =>
              /\ Len(symbols') = Len(symbols)
              /\ RootSymbols(scopes') = RootSymbols(scopes)
              /\ lookup' = lookup]_vars

\* C23: a bind of a name changes at most the arena entry of that name; a
\* rebind of a name already present adds no entry to the arena, the scope
\* or the lookup and does not change the SymbolId of the name.
C23_BindFrame ==
    /\ C23_OtherNamesUntouched
    /\ C23_RebindAddsNothing

\* `class A`, `x = 1`, `x: int`: the rebind of x rewrote the entry of x (it
\* now carries the annotation as decl) next to the entry of A
C23_Witness ==
    /\ Len(body) = 3
    /\ body[1].kind = "ClassDef" /\ body[1].targets[1].id = "A"
    /\ IsPlainAssignOf(body[2], "x")
    /\ IsAnnotationOf(body[3], "x") /\ ~body[3].has_value
    /\ lookup["A"] = 0 /\ lookup["x"] = 1
    /\ Entry("x").decl = body[3].node_index
    /\ Entry("A").decl = body[1].node_index
    /\ Len(symbols) = 2

-----------------------------------------------------------------------------
\* the targets of the step's statement through which it binds id
StepTargetsOf(id) ==
    LET stmt == body'[Len(body')] IN
    {j \in BindTargets(stmt) : stmt.targets[j].id = id}

\* a Nonlocal symbol always carries a decl
C24_NonlocalHasDecl ==
    \A k \in 1..Len(symbols) : symbols[k].kind = "Nonlocal" => is_decl(symbols[k])

\* every bind of a name whose entry is Nonlocal emits one conflict diagnostic
\* at the name it binds through, and the entry stays as it was
C24_BindAfterNonlocal ==
    [][\A id \in Names :
        (/\ Stepped
         /\ id \in StepNames
         /\ id \in DOMAIN lookup
         /\ Entry(id).kind = "Nonlocal")
        => LET stmt == body'[Len(body')] IN
           /\ \A j \in StepTargetsOf(id) :
                 Cardinality(NewErrorsAt(stmt.targets[j].range)) = 1
           /\ Len(NewErrors) >= Cardinality(StepTargetsOf(id))
           /\ EntryAfter(id) = Entry(id)]_vars

\* C24: once the entry of a name is Nonlocal, every later bind of the name
\* in the scope, of any kind and also by another nonlocal statement, emits a
\* conflict diagnostic and leaves the entry unchanged, a Nonlocal symbol
\* always carrying a decl.
C24_NonlocalEntryIsFinal ==
    /\ C24_BindAfterNonlocal
    /\ []C24_NonlocalHasDecl

\* `nonlocal x`, then a plain assignment of x, then another `nonlocal x`:
\* two conflicts, and the entry is still the symbol of the first statement
C24_Witness ==
    /\ Len(body) = 3
    /\ IsNonlocalOf(body[1], "x")
    /\ IsPlainAssignOf(body[2], "x")
    /\ IsNonlocalOf(body[3], "x")
    /\ Entry("x").kind = "Nonlocal"
    /\ Entry("x").decl = body[1].node_index
    /\ Len(errors) >= 2
    /\ body[2].targets[1].range \in ErrorRanges

====
